---------------------------- MODULE Spec2Model ----------------------------
(***************************************************************************)
(* A model of the CSV chat backend: the LangGraph controller of            *)
(* backend/csv_agent.py (agent_node, should_continue, tool_node,           *)
(* run_agent), its three CSV tools, and the upload / chat handlers of      *)
(* backend/main.py.                                                        *)
(*                                                                         *)
(* Texts built with f-strings are modelled as records that keep the parts  *)
(* the text is built from: [kind, num, items, arg, detail].                *)
(***************************************************************************)
EXTENDS Integers, Sequences, FiniteSets, TLC

VARIABLES
    fs,                 \* the file system: path -> content of the file
    current_csv_file,   \* main.py's process-wide binding (None until an upload)
    pc,                 \* where the chat handler is: idle, agent, tools, returned
    messages,           \* AgentState["messages"] of the running turn
    csv_file_path,      \* AgentState["csv_file_path"] of the running turn
    sent,               \* messages_with_system of the last llm invocation
    response,           \* what run_agent returned to chat
    invocations,        \* log of the turn's dispatched tool calls
    outcome,            \* how the turn ended: none, answer, llm_error, tool_raise,
                        \* recursion_error
    last_upload,        \* the last successful upload: [path, content, calls]
    toolrun,            \* a tool or upload_csv execution observed step by step
    steps,              \* super-steps agent.invoke has run in this turn
    langfuse_handler,   \* whether create_agent was given a callback handler
    trace,              \* the model calls the callback handler saw in this turn
    twin                \* the same turn as a run without callback handler goes
                        \* through it: [pc, messages, response, outcome]

vars == <<fs, current_csv_file, pc, messages, csv_file_path, sent, response,
          invocations, outcome, last_upload, toolrun, steps, langfuse_handler,
          trace, twin>>

turnvars == <<pc, messages, csv_file_path, sent, response, invocations, outcome,
              steps, trace, twin>>

----------------------------------------------------------------------------
(* Bounds of the model *)

\* tool calls the completion service may request in one turn, over all rounds
MaxToolCalls == 3

----------------------------------------------------------------------------
(* Files and datasets *)

None == "None"

PathA == "/tmp/csv_uploads/a.csv"
PathB == "/tmp/csv_uploads/b.csv"
FallbackPath == "backend/../finance.csv"

Files == {PathA, PathB, FallbackPath}

\* what a file holds: nothing (no such file), bytes that do not parse as CSV,
\* or one of five tables
Absent == "absent"
Garbage == "garbage"
Tables == {"TableA", "TableB", "Demo", "Codes", "Lab"}
Contents == {Absent, Garbage} \cup Tables

Columns(t) ==
    CASE t = "TableA" -> <<"age", "city">>
      [] t = "TableB" -> <<"name">>
      [] t = "Codes"  -> <<"code">>
      [] t = "Lab"    -> <<"ratio", "blank">>
      [] OTHER        -> <<"date", "amount">>

Rows(t) ==
    CASE t = "TableA" -> 3
      [] t = "TableB" -> 5
      [] t = "Codes"  -> 22
      [] t = "Lab"    -> 5
      [] OTHER        -> 7

\* the columns pd.api.types.is_numeric_dtype holds for
NumericColumns(t) ==
    CASE t = "TableA" -> {"age"}
      [] t = "TableB" -> {}
      [] t = "Codes"  -> {}
      [] t = "Lab"    -> {"ratio", "blank"}
      [] OTHER        -> {"amount"}

Range(s) == {s[i] : i \in DOMAIN s}

\* an empty cell of a numeric column, which pandas reads as nan
NaN == -1

\* the cells of a numeric column are the numbers cell / CellDenominator
CellDenominator(t, col) == IF t = "Lab" THEN 8 ELSE 1

\* the cells of a column, in row order; text columns have no empty cell
Cells(t, col) ==
    CASE t = "TableA" /\ col = "age"    -> <<10, 20, 30>>
      [] t = "TableA" /\ col = "city"   -> <<"Oslo", "Rome", "Oslo">>
      [] t = "TableB" /\ col = "name"   -> <<"ann", "bob", "cy", "dee", "eve">>
      [] t = "Demo"   /\ col = "date"   -> <<"d1", "d2", "d3", "d4", "d5", "d6", "d7">>
      [] t = "Demo"   /\ col = "amount" -> <<5, 1, 4, 1, 5, 9, 2>>
      [] t = "Codes"  /\ col = "code"   -> [i \in 1..22 |-> "c" \o ToString(i)]
      [] t = "Lab"    /\ col = "ratio"  -> <<5, 1, NaN, 3, 2>>
      [] t = "Lab"    /\ col = "blank"  -> <<NaN, NaN, NaN, NaN, NaN>>
      [] OTHER -> <<>>

\* a text, as the parts it is formatted from: the fixed wording (kind), a
\* number, a list of strings, and two strings
Text(kind, num, items, arg, detail) ==
    [kind |-> kind, num |-> num, items |-> items, arg |-> arg, detail |-> detail]

NoText == Text("", 0, <<>>, "", "")

----------------------------------------------------------------------------
(* Strings *)

\* Python's "p in s"
Contains(s, p) ==
    \E i \in 1..(Len(s) - Len(p) + 1) : SubSeq(s, i, i + Len(p) - 1) = p

AnyPhrase(s, phrases) == \E p \in phrases : Contains(s, p)

LowerChar(c) ==
    CASE c = "A" -> "a" [] c = "B" -> "b" [] c = "C" -> "c" [] c = "D" -> "d"
      [] c = "E" -> "e" [] c = "F" -> "f" [] c = "G" -> "g" [] c = "H" -> "h"
      [] c = "I" -> "i" [] c = "J" -> "j" [] c = "K" -> "k" [] c = "L" -> "l"
      [] c = "M" -> "m" [] c = "N" -> "n" [] c = "O" -> "o" [] c = "P" -> "p"
      [] c = "Q" -> "q" [] c = "R" -> "r" [] c = "S" -> "s" [] c = "T" -> "t"
      [] c = "U" -> "u" [] c = "V" -> "v" [] c = "W" -> "w" [] c = "X" -> "x"
      [] c = "Y" -> "y" [] c = "Z" -> "z" [] OTHER -> c

RECURSIVE Lower(_)
\* str.lower()
Lower(s) ==
    IF Len(s) = 0 THEN ""
    ELSE LowerChar(SubSeq(s, 1, 1)) \o Lower(SubSeq(s, 2, Len(s)))

\* str(v) of a cell of a float64 column, for the number v / 8
StrFloat(v) ==
    IF v = NaN THEN "nan"
    ELSE ToString(v \div 8) \o "." \o
         (CASE v % 8 = 0 -> "0"   [] v % 8 = 1 -> "125" [] v % 8 = 2 -> "25"
            [] v % 8 = 3 -> "375" [] v % 8 = 4 -> "5"   [] v % 8 = 5 -> "625"
            [] v % 8 = 6 -> "75"  [] OTHER     -> "875")

\* str(v) of a cell v of column col: of a text, of an int64 or of a float64
Str(df, col, v) ==
    IF col \notin NumericColumns(df) THEN v
    ELSE IF CellDenominator(df, col) = 1 THEN ToString(v)
    ELSE StrFloat(v)

\* f"{x:.2f}" of the number h / 100
Format2(h) ==
    LET cents == h % 100
    IN  ToString(h \div 100) \o "." \o (IF cents < 10 THEN "0" ELSE "") \o ToString(cents)

\* the number x / n in hundredths as :.2f rounds it: to the nearest, a tie
\* to the even one (a tie of the model's numbers is a binary fraction, which
\* a float holds exactly)
Hundredths(x, n) ==
    LET q == (100 * x) \div n
        r == (100 * x) % n
    IN  IF 2 * r > n \/ (2 * r = n /\ q % 2 = 1) THEN q + 1 ELSE q


RECURSIVE SumSeq(_)
SumSeq(s) == IF s = <<>> THEN 0 ELSE s[1] + SumSeq(Tail(s))

MaxSeq(s) == CHOOSE m \in Range(s) : \A x \in Range(s) : x <= m
MinSeq(s) == CHOOSE m \in Range(s) : \A x \in Range(s) : m <= x

RECURSIVE UniqueSeq(_)
\* Series.unique(): the distinct values in first-seen order
UniqueSeq(s) ==
    IF s = <<>> THEN <<>>
    ELSE LET front == UniqueSeq(SubSeq(s, 1, Len(s) - 1))
             last  == s[Len(s)]
         IN  IF last \in Range(front) THEN front ELSE Append(front, last)

\* the cells of a numeric column that are not nan
Present(cells) ==
    LET notna(v) == v # NaN
    IN  SelectSeq(cells, notna)

RECURSIVE Sorted(_)
\* in ascending order
Sorted(s) ==
    IF s = <<>> THEN <<>>
    ELSE LET i == CHOOSE k \in DOMAIN s : \A j \in DOMAIN s : s[k] <= s[j]
         IN  <<s[i]>> \o Sorted(SubSeq(s, 1, i - 1) \o SubSeq(s, i + 1, Len(s)))

\* four times the k-th quartile of a sorted non-empty sequence, by linear
\* interpolation between the two nearest ranks (Series.quantile's default)
Quantile4(sorted, k) ==
    LET n  == Len(sorted)
        lo == ((n - 1) * k) \div 4 + 1
        r  == ((n - 1) * k) % 4
        hi == IF lo < n THEN lo + 1 ELSE lo
    IN  4 * sorted[lo] + r * (sorted[hi] - sorted[lo])

RECURSIVE RootSearch(_, _, _, _)
\* the integer of lo..hi nearest to the square root of num / den
RootSearch(num, den, lo, hi) ==
    IF lo >= hi THEN lo
    ELSE LET mid == (lo + hi + 1) \div 2
         IN  IF (2 * mid - 1) * (2 * mid - 1) * den <= 4 * num
             THEN RootSearch(num, den, mid, hi)
             ELSE RootSearch(num, den, lo, mid - 1)

\* Series.std() (n - 1 in the denominator) of the numbers present[i] / den,
\* in hundredths; present has two elements or more
StdHundredths(present, den) ==
    LET n == Len(present)
        squares == [i \in DOMAIN present |-> present[i] * present[i]]
        num == n * SumSeq(squares) - SumSeq(present) * SumSeq(present)
    IN  RootSearch(10000 * num, n * (n - 1) * den * den, 0,
                   (100 * (MaxSeq(present) - MinSeq(present))) \div den + 1)

\* the statistics of the numbers sorted[i] / den that analyze_csv_column
\* prints, each as :.2f formats it: mean, std, min, 25%, 50%, 75%, max
StatisticsOf(sorted, den) ==
    IF sorted = <<>>
    THEN <<"nan", "nan", "nan", "nan", "nan", "nan", "nan">>
    ELSE <<Format2(Hundredths(SumSeq(sorted), Len(sorted) * den)),
           IF Len(sorted) < 2 THEN "nan" ELSE Format2(StdHundredths(sorted, den))>> \o
         [k \in 1..5 |-> Format2(Hundredths(Quantile4(sorted, k - 1), 4 * den))]

\* (mutant) the quartiles are taken from the cells in row order
describe_unsorted(cells, den) == StatisticsOf(Present(cells), den)

\* col.describe() of a numeric column: nan cells are left out, the quartiles
\* are those of the sorted values, and without a number every statistic is
\* nan
describe(cells, den) == StatisticsOf(Sorted(Present(cells)), den)

\* how often v occurs in cells
CountOf(cells, v) == Cardinality({i \in DOMAIN cells : cells[i] = v})

RECURSIVE ByCount(_, _)
\* the values in descending order of their count, equal counts in the order
\* of values
ByCount(values, cells) ==
    IF values = <<>> THEN <<>>
    ELSE LET i == CHOOSE k \in DOMAIN values :
                     /\ \A j \in DOMAIN values :
                           CountOf(cells, values[k]) >= CountOf(cells, values[j])
                     /\ \A j \in 1..(k - 1) :
                           CountOf(cells, values[j]) < CountOf(cells, values[k])
         IN  <<values[i]>> \o
             ByCount(SubSeq(values, 1, i - 1) \o SubSeq(values, i + 1, Len(values)), cells)

\* col.value_counts().head(10) of a text column, one line per value
value_counts_head(cells) ==
    LET order == ByCount(UniqueSeq(cells), cells)
        head == IF Len(order) <= 10 THEN order ELSE SubSeq(order, 1, 10)
    IN  [i \in DOMAIN head |-> head[i] \o ": " \o ToString(CountOf(cells, head[i]))]

----------------------------------------------------------------------------
(* The tools (csv_agent.py) *)

os_path_exists(path, fsx) == path \in DOMAIN fsx /\ fsx[path] # Absent

\* (mutant) only the empty path is replaced
_get_csv_path_no_check(file_path, fsx) ==
    IF file_path = "" THEN FallbackPath ELSE file_path

_get_csv_path(file_path, fsx) ==
    IF file_path = "" \/ ~os_path_exists(file_path, fsx)
    THEN FallbackPath
    ELSE file_path

\* (mutant) a file that cannot be read is replaced by the fallback file
pd_read_csv_falls_back(csv_path, fsx) ==
    LET path == IF os_path_exists(csv_path, fsx) /\ fsx[csv_path] # Garbage
                THEN csv_path ELSE FallbackPath
    IN  IF ~os_path_exists(path, fsx)
        THEN [ok |-> FALSE, df |-> Absent, err |-> "FileNotFoundError"]
        ELSE IF fsx[path] = Garbage
        THEN [ok |-> FALSE, df |-> Absent, err |-> "ParserError"]
        ELSE [ok |-> TRUE, df |-> fsx[path], err |-> ""]

\* pd.read_csv(csv_path): the table, or the exception it raises
pd_read_csv(csv_path, fsx) ==
    IF ~os_path_exists(csv_path, fsx)
    THEN [ok |-> FALSE, df |-> Absent, err |-> "FileNotFoundError"]
    ELSE IF fsx[csv_path] = Garbage
    THEN [ok |-> FALSE, df |-> Absent, err |-> "ParserError"]
    ELSE [ok |-> TRUE, df |-> fsx[csv_path], err |-> ""]

\* The tools take the file system twice: as it is when _get_csv_path checks
\* the path (fs1) and as it is when pd.read_csv opens the file (fs2).

read_csv_tool(file_path, fs1, fs2) ==
    LET csv_path == _get_csv_path(file_path, fs1)
        r == pd_read_csv(csv_path, fs2)
    IN  IF r.ok
        THEN Text("CSV File Information", Rows(r.df), Columns(r.df), "", "")
        ELSE Text("Error reading CSV file", 0, <<>>, "", r.err)

\* the lines of a text column: the number of unique values, the value counts
\* and the line about the values left out
categorical_lines(col, nunique) ==
    <<ToString(nunique)>> \o value_counts_head(col) \o
    (IF Len(value_counts_head(col)) = 10 /\ nunique > 10
     THEN <<"... and " \o ToString(nunique - 10) \o " more unique values">>
     ELSE <<>>)

\* the percentage of missing values as :.2f formats it
missing_percent(missing_count, rows) == Format2(Hundredths(100 * missing_count, rows))

\* analyze_csv_column once the table is read.  The text has the number of
\* missing values (num), then in items their percentage and either the seven
\* statistics or the lines of a text column.
analyze_column(df, column_name) ==
    IF column_name \notin Range(Columns(df))
    THEN Text("Error: Column not found. Available columns", 0, Columns(df),
              column_name, "")
    ELSE IF column_name \in NumericColumns(df)
    THEN LET missing_count == Rows(df) - Len(Present(Cells(df, column_name)))
         IN  Text("Analysis of column", missing_count,
                  <<missing_percent(missing_count, Rows(df))>> \o
                     describe(Cells(df, column_name), CellDenominator(df, column_name)),
                  column_name, "Column Type: Numeric")
    ELSE Text("Analysis of column", 0,
              <<missing_percent(0, Rows(df))>> \o
                 categorical_lines(Cells(df, column_name),
                                   Len(UniqueSeq(Cells(df, column_name)))),
              column_name, "Column Type: Categorical")

analyze_csv_column(column_name, file_path, fs1, fs2) ==
    LET csv_path == _get_csv_path(file_path, fs1)
        r == pd_read_csv(csv_path, fs2)
    IN  IF ~r.ok
        THEN Text("Error analyzing column", 0, <<>>, "", r.err)
        ELSE analyze_column(r.df, column_name)

RowCountPhrases == {"count rows", "how many rows", "number of rows", "row count"}
ListColumnsPhrases == {"list columns", "what columns", "column names", "show columns"}
SummaryPhrases == {"summary statistics", "describe", "overview", "summary"}
Operations == <<"sum", "mean", "average", "max", "min">>

\* the index of the first column, in table order, that is among `wanted`;
\* 0 when none is
FirstColumn(df, wanted) ==
    LET hits == {i \in DOMAIN Columns(df) : Columns(df)[i] \in wanted}
    IN  IF hits = {} THEN 0 ELSE CHOOSE i \in hits : \A j \in hits : i <= j

\* f"{result:.2f}" for df[col].sum(), .mean(), .max() or .min() over the
\* numbers present[i] / den: nan cells are left out, and without a number
\* the sum is 0 and the others are nan
Aggregate(operation, present, den) ==
    IF operation = "sum" THEN Format2(Hundredths(SumSeq(present), den))
    ELSE IF present = <<>> THEN "nan"
    ELSE Format2(CASE operation \in {"mean", "average"} ->
                        Hundredths(SumSeq(present), Len(present) * den)
                   [] operation = "max" -> Hundredths(MaxSeq(present), den)
                   [] OTHER -> Hundredths(MinSeq(present), den))

\* (mutant) a column is named when the text ends with its name
NamedColumns_at_end(df, query_lower) ==
    {col \in Range(Columns(df)) :
        /\ Len(Lower(col)) <= Len(query_lower)
        /\ SubSeq(query_lower, Len(query_lower) - Len(Lower(col)) + 1, Len(query_lower))
              = Lower(col)}

\* the columns, as a set, whose lower-cased name occurs in the text
NamedColumns(df, query_lower) ==
    {col \in Range(Columns(df)) : Contains(query_lower, Lower(col))}

\* (mutant) every unique value is listed, however many there are
unique_values_unlimited(df, query_lower) ==
    LET c == FirstColumn(df, NamedColumns(df, query_lower))
    IN  IF c = 0
        THEN Text("Please specify which column to show unique values for.",
                  0, <<>>, "", "")
        ELSE LET col == Columns(df)[c]
                 unique_vals == UniqueSeq(Cells(df, col))
             IN  Text("Unique values in", 0,
                      [i \in DOMAIN unique_vals |-> Str(df, col, unique_vals[i])], col, "")

\* the branch of query_csv_data for a text with "unique"
unique_values(df, query_lower) ==
    LET c == FirstColumn(df, NamedColumns(df, query_lower))
    IN  IF c = 0
        THEN Text("Please specify which column to show unique values for.",
                  0, <<>>, "", "")
        ELSE LET col == Columns(df)[c]
                 unique_vals == UniqueSeq(Cells(df, col))
                 shown == IF Len(unique_vals) <= 20 THEN unique_vals
                          ELSE SubSeq(unique_vals, 1, 20)
             IN  Text("Unique values in", 0,
                      [i \in DOMAIN shown |-> Str(df, col, shown[i])], col,
                      IF Len(unique_vals) <= 20 THEN ""
                      ELSE "... and " \o ToString(Len(unique_vals) - 20) \o " more")

\* the indices of the operation tokens that occur in the text
OperationsIn(query_lower) ==
    {i \in DOMAIN Operations : Contains(query_lower, Operations[i])}

\* the text for one operation: over the first numeric column, in table order,
\* that the text names, or the message that there is none
aggregate_column(df, query_lower, operation) ==
    LET c == FirstColumn(df, NamedColumns(df, query_lower) \cap NumericColumns(df))
    IN  IF c = 0
        THEN Text("Could not find a numeric column for operation", 0, <<>>,
                  operation, "")
        ELSE Text("The operation of column is", 0, <<operation>>, Columns(df)[c],
                  Aggregate(operation, Present(Cells(df, Columns(df)[c])),
                            CellDenominator(df, Columns(df)[c])))

\* (mutant) the operation is the one that comes first in the text
aggregate_first_in_text(df, query_lower) ==
    LET ops == OperationsIn(query_lower)
        at(i) == CHOOSE k \in 1..Len(query_lower) :
                    /\ SubSeq(query_lower, k, k + Len(Operations[i]) - 1) = Operations[i]
                    /\ \A m \in 1..(k - 1) :
                          SubSeq(query_lower, m, m + Len(Operations[i]) - 1) # Operations[i]
    IN  aggregate_column(df, query_lower,
                         Operations[CHOOSE i \in ops : \A j \in ops : at(i) <= at(j)])

\* the loop over the operations, for a text with one of them: it returns in
\* its first round whose operation occurs in the text
aggregate(df, query_lower) ==
    LET ops == OperationsIn(query_lower)
    IN  aggregate_column(df, query_lower,
                         Operations[CHOOSE i \in ops : \A j \in ops : i <= j])

\* (mutant) the operations are looked for before the summary
resolve_aggregate_before_summary(df, query) ==
    LET query_lower == Lower(query)
    IN  IF AnyPhrase(query_lower, RowCountPhrases)
        THEN Text("The CSV file has rows", Rows(df), <<>>, "", "")
        ELSE IF AnyPhrase(query_lower, ListColumnsPhrases)
        THEN Text("Columns in the CSV file", 0, Columns(df), "", "")
        ELSE IF OperationsIn(query_lower) # {}
        THEN aggregate(df, query_lower)
        ELSE IF AnyPhrase(query_lower, SummaryPhrases)
        THEN Text("Summary Statistics", Rows(df), Columns(df), "", "")
        ELSE IF Contains(query_lower, "unique")
        THEN unique_values(df, query_lower)
        ELSE Text("I can help with queries like", 0, <<>>, query, "")

\* query_csv_data once the table is read
resolve(df, query) ==
    LET query_lower == Lower(query)
    IN  IF AnyPhrase(query_lower, RowCountPhrases)
        THEN Text("The CSV file has rows", Rows(df), <<>>, "", "")
        ELSE IF AnyPhrase(query_lower, ListColumnsPhrases)
        THEN Text("Columns in the CSV file", 0, Columns(df), "", "")
        ELSE IF AnyPhrase(query_lower, SummaryPhrases)
        THEN Text("Summary Statistics", Rows(df), Columns(df), "", "")
        ELSE IF Contains(query_lower, "unique")
        THEN unique_values(df, query_lower)
        ELSE IF OperationsIn(query_lower) # {}
        THEN aggregate(df, query_lower)
        ELSE Text("I can help with queries like", 0, <<>>, query, "")

query_csv_data(query, file_path, fs1, fs2) ==
    LET csv_path == _get_csv_path(file_path, fs1)
        r == pd_read_csv(csv_path, fs2)
    IN  IF ~r.ok
        THEN Text("Error processing query", 0, <<>>, "", r.err)
        ELSE resolve(r.df, query)

\* tools = [read_csv_tool, analyze_csv_column, query_csv_data]
tools == <<"read_csv_tool", "analyze_csv_column", "query_csv_data">>

\* the arguments a tool's signature has no default for
RequiredArgs(name) ==
    CASE name = "analyze_csv_column" -> {"column_name"}
      [] name = "query_csv_data"     -> {"query"}
      [] OTHER                       -> {}

\* tool_func.invoke(args): the arguments are validated against the tool's
\* signature, which raises when a required one is missing; then the function
\* runs and its text is returned.
tool_invoke(name, args, fsx) ==
    IF ~(RequiredArgs(name) \subseteq DOMAIN args)
    THEN [raised |-> TRUE, content |-> NoText]
    ELSE [raised |-> FALSE,
          content |->
            CASE name = "read_csv_tool" ->
                   read_csv_tool(args.file_path, fsx, fsx)
              [] name = "analyze_csv_column" ->
                   analyze_csv_column(args.column_name, args.file_path, fsx, fsx)
              [] OTHER ->
                   query_csv_data(args.query, args.file_path, fsx, fsx)]

----------------------------------------------------------------------------
(* Messages *)

Message(role, content, tool_calls, tool_call_id) ==
    [role |-> role, content |-> content, tool_calls |-> tool_calls,
     tool_call_id |-> tool_call_id]

SystemMessage(content) == Message("system", content, <<>>, 0)
HumanMessage(content)  == Message("human", content, <<>>, 0)
AIMessage(content, tool_calls) == Message("ai", content, tool_calls, 0)
ToolMessage(content, tool_call_id) == Message("tool", content, <<>>, tool_call_id)

----------------------------------------------------------------------------
(* The controller (csv_agent.py, create_agent and run_agent) *)

\* (mutant) the path put into a call is main.py's binding of the moment
DispatchCall_reads_binding(call, path, fsx) ==
    LET tool_args_with_path ==
            IF "file_path" \notin DOMAIN call.args
            THEN call.args @@ ("file_path" :>
                    (IF current_csv_file # None THEN current_csv_file ELSE ""))
            ELSE call.args
        inv == tool_invoke(call.name, tool_args_with_path, fsx)
    IN  IF call.name \in Range(tools)
        THEN [id |-> call.id, name |-> call.name, emitted |-> call.args,
              invoked |-> TRUE, invoked_args |-> tool_args_with_path,
              raised |-> inv.raised, result |-> inv.content,
              args_after |-> call.args]
        ELSE [id |-> call.id, name |-> call.name, emitted |-> call.args,
              invoked |-> FALSE, invoked_args |-> <<>>,
              raised |-> FALSE,
              result |-> Text("Tool not found.", 0, <<>>, call.name, ""),
              args_after |-> call.args]

\* (mutant) the turn's path replaces a path the call carries
DispatchCall_overwrites_path(call, path, fsx) ==
    LET tool_args_with_path ==
            [key \in DOMAIN call.args \cup {"file_path"} |->
                IF key = "file_path" THEN path ELSE call.args[key]]
        inv == tool_invoke(call.name, tool_args_with_path, fsx)
    IN  IF call.name \in Range(tools)
        THEN [id |-> call.id, name |-> call.name, emitted |-> call.args,
              invoked |-> TRUE, invoked_args |-> tool_args_with_path,
              raised |-> inv.raised, result |-> inv.content,
              args_after |-> call.args]
        ELSE [id |-> call.id, name |-> call.name, emitted |-> call.args,
              invoked |-> FALSE, invoked_args |-> <<>>,
              raised |-> FALSE,
              result |-> Text("Tool not found.", 0, <<>>, call.name, ""),
              args_after |-> call.args]

\* one pass of tool_node's loop body for `call`: the result text, whether a
\* tool was invoked and with which arguments, whether the invocation raised,
\* and the call's own argument mapping as the pass leaves it
DispatchCall(call, path, fsx) ==
    LET tool_func == call.name \in Range(tools)
        tool_args == call.args
        tool_args_with_path ==
            IF "file_path" \notin DOMAIN tool_args
            THEN tool_args @@ ("file_path" :> path)
            ELSE tool_args
        inv == tool_invoke(call.name, tool_args_with_path, fsx)
    IN  IF tool_func
        THEN [id |-> call.id, name |-> call.name, emitted |-> call.args,
              invoked |-> TRUE, invoked_args |-> tool_args_with_path,
              raised |-> inv.raised, result |-> inv.content,
              args_after |-> tool_args]
        ELSE [id |-> call.id, name |-> call.name, emitted |-> call.args,
              invoked |-> FALSE, invoked_args |-> <<>>,
              raised |-> FALSE,
              result |-> Text("Tool not found.", 0, <<>>, call.name, ""),
              args_after |-> tool_args]

RECURSIVE RunCalls(_, _, _)
\* tool_node's loop: the passes in the order of last_message.tool_calls, up
\* to and including the first one that raises
RunCalls(calls, path, fsx) ==
    IF calls = <<>> THEN <<>>
    ELSE LET d == DispatchCall(Head(calls), path, fsx)
         IN  IF d.raised THEN <<d>>
             ELSE <<d>> \o RunCalls(Tail(calls), path, fsx)

\* (mutant) no message is appended for a call whose tool was not found
ToolNodeMessages_skips_unknown(msgs, passes) ==
    LET known(p) == p.invoked
        answered == SelectSeq(passes, known)
    IN  msgs \o [i \in DOMAIN answered |->
                    ToolMessage(answered[i].result, answered[i].id)]

\* (mutant) the node returns its new messages only, as for a state whose
\* messages are merged by a reducer
ToolNodeMessages_only_new(msgs, passes) ==
    [i \in DOMAIN passes |-> ToolMessage(passes[i].result, passes[i].id)]

\* tool_node's return value: messages + tool_messages
ToolNodeMessages(msgs, passes) ==
    LET last_message == msgs[Len(msgs)]
        after == [last_message EXCEPT !.tool_calls =
                     [i \in DOMAIN @ |-> [@[i] EXCEPT !.args = passes[i].args_after]]]
        tool_messages == [i \in DOMAIN passes |->
                             ToolMessage(passes[i].result, passes[i].id)]
    IN  SubSeq(msgs, 1, Len(msgs) - 1) \o <<after>> \o tool_messages

\* (mutant) a single tool call is taken for a plain answer
should_continue_single_call_ends(msgs) ==
    IF Len(msgs[Len(msgs)].tool_calls) > 1 THEN "tools" ELSE "end"

\* should_continue
should_continue(msgs) ==
    IF msgs[Len(msgs)].tool_calls # <<>> THEN "tools" ELSE "end"

\* run_agent's result once agent.invoke has returned
FinalResponse(msgs) ==
    LET final_message == msgs[Len(msgs)]
    IN  IF final_message.role = "ai" THEN final_message.content
        ELSE Text("str(final_message)", 0, <<>>, "", "")

\* run_agent's except branch
ErrorResponse(e) == Text("Error running agent", 0, <<>>, "", e)

\* agent_node's messages_with_system
MessagesWithSystem(msgs, path) ==
    IF msgs = <<>> \/ msgs[1].role # "system"
    THEN <<SystemMessage(Text("The current CSV file path is", 0, <<>>,
             IF path # "" THEN path ELSE "demo_data.csv (default)", ""))>> \o msgs
    ELSE msgs

\* (mutant) with a callback handler the tool calls of the response are lost
llm_invoke_handler_loses_calls(messages_with_system, resp, handler) ==
    IF handler THEN [resp EXCEPT !.tool_calls = <<>>] ELSE resp

\* llm_with_tools.invoke(messages_with_system), with or without
\* config={"callbacks": [langfuse_handler]}: resp is what the completion
\* service answers; a callback handler observes the call
llm_invoke(messages_with_system, resp, handler) == resp

\* where a turn is: position, history, run_agent's result and the way it ended
TurnState(p, msgs, r, o) ==
    [pc |-> p, messages |-> msgs, response |-> r, outcome |-> o]

\* (mutant) the node returns the messages it sent, system message included
AfterAgentNode_keeps_system(msgs, path, resp, handler) ==
    LET returned == MessagesWithSystem(msgs, path) \o
                       <<llm_invoke(MessagesWithSystem(msgs, path), resp, handler)>>
    IN  IF should_continue(returned) = "tools"
        THEN TurnState("tools", returned, NoText, "none")
        ELSE TurnState("returned", returned, FinalResponse(returned), "answer")

\* agent_node on the history msgs, then should_continue and, on "end",
\* run_agent's extraction of the answer
AfterAgentNode(msgs, path, resp, handler) ==
    LET returned == msgs \o <<llm_invoke(MessagesWithSystem(msgs, path), resp, handler)>>
    IN  IF should_continue(returned) = "tools"
        THEN TurnState("tools", returned, NoText, "none")
        ELSE TurnState("returned", returned, FinalResponse(returned), "answer")

\* tool_node on the history msgs: back to the agent node with the tool
\* messages, or out through run_agent's except branch when an invocation raised
AfterToolNode(msgs, passes) ==
    IF passes[Len(passes)].raised
    THEN TurnState("returned", msgs, ErrorResponse("ValidationError"), "tool_raise")
    ELSE TurnState("agent", ToolNodeMessages(msgs, passes), NoText, "none")

\* (mutant) the graph runs twice as many super-steps
OutOfSteps_twice(n) == n >= 2 * 25

\* agent.invoke(initial_state) is called without a config, so the graph runs
\* under LangGraph's default recursion limit: at most RecursionLimit
\* super-steps (one node run each), then GraphRecursionError
RecursionLimit == 25
OutOfSteps(n) == n >= RecursionLimit

----------------------------------------------------------------------------
(* What the environment supplies *)

UserMessages == {"how many rows are there?"}

\* the tool calls the completion service may emit, without their identifiers
CallShapes ==
    { [name |-> "read_csv_tool", args |-> <<>>],
      [name |-> "read_csv_tool", args |-> [file_path |-> ""]],
      [name |-> "read_csv_tool", args |-> [file_path |-> PathA]],
      [name |-> "analyze_csv_column", args |-> [column_name |-> "age"]],
      [name |-> "analyze_csv_column", args |-> <<>>],
      [name |-> "query_csv_data", args |-> [query |-> "How many rows"]],
      [name |-> "query_csv_data", args |-> [file_path |-> PathA]],
      [name |-> "make_chart", args |-> <<>>] }

AnswerText == Text("assistant", 0, <<>>, "Here is the answer.", "")

\* the responses the completion service may give when `used` tool calls were
\* requested earlier in the turn: no tool call and a text, or 1..n tool calls
\* with fresh identifiers
LLMResponses(used) ==
    {AIMessage(AnswerText, <<>>)} \cup
    UNION { { AIMessage(NoText,
                        [i \in 1..n |-> [name |-> shape[i].name,
                                         args |-> shape[i].args,
                                         id |-> used + i]])
              : shape \in [1..n -> CallShapes] }
            : n \in 1..(MaxToolCalls - used) }

\* the uploads: file name and bytes
UploadNames == {"a.csv", "b.csv"}
UploadContents(name) == IF name = "a.csv" THEN {"TableA", Garbage} ELSE {"TableB"}
UploadPath(name) == IF name = "a.csv" THEN PathA ELSE PathB

NoUpload == [path |-> None, content |-> Absent, calls |-> 0]
IdleTurn == TurnState("idle", <<>>, NoText, "none")
NoRun == [stage |-> "none"]

----------------------------------------------------------------------------
(* The service: upload and chat handlers, and the graph's nodes *)

Init ==
    /\ fs = [f \in Files |-> IF f = FallbackPath THEN "Demo" ELSE Absent]
    /\ current_csv_file = None
    /\ pc = "idle"
    /\ messages = <<>>
    /\ csv_file_path = ""
    /\ sent = <<>>
    /\ response = NoText
    /\ invocations = <<>>
    /\ outcome = "none"
    /\ last_upload = NoUpload
    /\ toolrun = NoRun
    /\ steps = 0
    /\ langfuse_handler = FALSE
    /\ trace = <<>>
    /\ twin = IdleTurn

\* (mutant) the binding is set by the first upload only
upload_csv_keeps_first_binding(name, content) ==
    /\ pc = "idle"
    /\ fs' = [fs EXCEPT ![UploadPath(name)] = content]
    /\ current_csv_file' = (IF current_csv_file = None THEN UploadPath(name)
                            ELSE current_csv_file)
    /\ last_upload' = [path |-> UploadPath(name), content |-> content,
                        calls |-> Len(invocations)]
    /\ UNCHANGED <<turnvars, toolrun, langfuse_handler>>

\* upload_csv's writes for a file name that ends in .csv: the bytes are
\* written under UPLOAD_DIR and the binding is set to that path (last_upload
\* also notes how many tool calls a running turn had dispatched by then)
save_upload(name, content) ==
    /\ fs' = [fs EXCEPT ![UploadPath(name)] = content]
    /\ current_csv_file' = UploadPath(name)
    /\ last_upload' = [path |-> UploadPath(name), content |-> content,
                        calls |-> Len(invocations)]
    /\ UNCHANGED <<turnvars, toolrun, langfuse_handler>>

\* upload_csv while no turn is running
upload_csv(name, content) ==
    /\ pc = "idle"
    /\ save_upload(name, content)

\* chat, up to run_agent's initial_state and the graph's entry point
chat(user_message) ==
    /\ pc = "idle"
    /\ messages' = <<HumanMessage(Text("user", 0, <<>>, user_message, ""))>>
    /\ csv_file_path' = (IF current_csv_file # None THEN current_csv_file ELSE "")
    /\ pc' = "agent"
    /\ sent' = <<>>
    /\ response' = NoText
    /\ invocations' = <<>>
    /\ outcome' = "none"
    /\ steps' = 0
    /\ trace' = <<>>
    /\ twin' = TurnState("agent", messages', NoText, "none")
    /\ UNCHANGED <<fs, current_csv_file, last_upload, toolrun, langfuse_handler>>

\* agent_node with a response of the completion service, then should_continue
\* and, on "end", run_agent's extraction of the answer
agent_node(resp) ==
    /\ pc = "agent"
    /\ ~OutOfSteps(steps)
    /\ sent' = MessagesWithSystem(messages, csv_file_path)
    /\ LET after == AfterAgentNode(messages, csv_file_path, resp, langfuse_handler)
       IN  /\ messages' = after.messages
           /\ pc' = after.pc
           /\ response' = after.response
           /\ outcome' = after.outcome
    /\ steps' = steps + 1
    /\ trace' = (IF langfuse_handler THEN Append(trace, sent') ELSE trace)
    /\ twin' = AfterAgentNode(twin.messages, csv_file_path, resp, FALSE)
    /\ UNCHANGED <<fs, current_csv_file, csv_file_path, invocations, last_upload,
                   toolrun, langfuse_handler>>

\* (mutant) the failure is swallowed and run_agent returns the last message
agent_node_raises_returns_last ==
    /\ pc = "agent"
    /\ sent' = MessagesWithSystem(messages, csv_file_path)
    /\ pc' = "returned"
    /\ response' = FinalResponse(messages)
    /\ outcome' = "llm_error"
    /\ steps' = steps + 1
    /\ trace' = (IF langfuse_handler THEN Append(trace, sent') ELSE trace)
    /\ twin' = TurnState("returned", twin.messages, FinalResponse(twin.messages),
                         "llm_error")
    /\ UNCHANGED <<fs, current_csv_file, messages, csv_file_path, invocations,
                   last_upload, toolrun, langfuse_handler>>

\* agent_node when the completion service raises: nothing catches it before
\* run_agent's except branch
agent_node_raises ==
    /\ pc = "agent"
    /\ ~OutOfSteps(steps)
    /\ sent' = MessagesWithSystem(messages, csv_file_path)
    /\ pc' = "returned"
    /\ response' = ErrorResponse("ModelServiceError")
    /\ outcome' = "llm_error"
    /\ steps' = steps + 1
    /\ trace' = (IF langfuse_handler THEN Append(trace, sent') ELSE trace)
    /\ twin' = TurnState("returned", twin.messages, ErrorResponse("ModelServiceError"),
                         "llm_error")
    /\ UNCHANGED <<fs, current_csv_file, messages, csv_file_path, invocations,
                   last_upload, toolrun, langfuse_handler>>

\* tool_node: every call of the last message is dispatched in order; an
\* invocation that raises leaves the node (and the graph) at once and ends in
\* run_agent's except branch
tool_node ==
    /\ pc = "tools"
    /\ ~OutOfSteps(steps)
    /\ LET passes == RunCalls(messages[Len(messages)].tool_calls, csv_file_path, fs)
           after == AfterToolNode(messages, passes)
       IN  /\ invocations' = invocations \o passes
           /\ messages' = after.messages
           /\ pc' = after.pc
           /\ response' = after.response
           /\ outcome' = after.outcome
    /\ steps' = steps + 1
    /\ twin' = AfterToolNode(twin.messages,
                   RunCalls(twin.messages[Len(twin.messages)].tool_calls,
                            csv_file_path, fs))
    /\ UNCHANGED <<fs, current_csv_file, csv_file_path, sent, last_upload, toolrun,
                   langfuse_handler, trace>>

\* the graph is out of super-steps before it reached END: agent.invoke raises
\* GraphRecursionError, which run_agent's except branch turns into its text
graph_recursion_error ==
    /\ pc \in {"agent", "tools"}
    /\ OutOfSteps(steps)
    /\ pc' = "returned"
    /\ response' = ErrorResponse("GraphRecursionError")
    /\ outcome' = "recursion_error"
    /\ twin' = TurnState("returned", twin.messages,
                         ErrorResponse("GraphRecursionError"), "recursion_error")
    /\ UNCHANGED <<fs, current_csv_file, messages, csv_file_path, sent, invocations,
                   last_upload, toolrun, steps, langfuse_handler, trace>>

\* chat returns ChatResponse(response=response); the turn's state is dropped
chat_returns ==
    /\ pc = "returned"
    /\ pc' = "idle"
    /\ messages' = <<>>
    /\ csv_file_path' = ""
    /\ sent' = <<>>
    /\ response' = NoText
    /\ invocations' = <<>>
    /\ outcome' = "none"
    /\ steps' = 0
    /\ trace' = <<>>
    /\ twin' = IdleTurn
    /\ UNCHANGED <<fs, current_csv_file, last_upload, toolrun, langfuse_handler>>

\* In Next the completion service requests at most MaxToolCalls tool calls in
\* a turn, so a turn takes at most 2 * MaxToolCalls + 1 super-steps and
\* graph_recursion_error is never enabled; SpecLoop is the specification with
\* a service that can go on requesting tools.
Next ==
    \/ \E name \in UploadNames : \E content \in UploadContents(name) :
          upload_csv(name, content)
    \/ \E user_message \in UserMessages : chat(user_message)
    \/ pc = "agent" /\ \E resp \in LLMResponses(Len(invocations)) : agent_node(resp)
    \/ agent_node_raises
    \/ tool_node
    \/ chat_returns

Spec == Init /\ [][Next]_vars

----------------------------------------------------------------------------
(* A completion service that may go on requesting a tool in every response *)

\* the responses of this service: a text, or one more call of read_csv_tool
LoopResponses(used) ==
    { AIMessage(AnswerText, <<>>),
      AIMessage(NoText, <<[name |-> "read_csv_tool", args |-> <<>>, id |-> used + 1]>>) }

NextLoop ==
    \/ \E name \in UploadNames : \E content \in UploadContents(name) :
          upload_csv(name, content)
    \/ \E user_message \in UserMessages : chat(user_message)
    \/ pc = "agent" /\ \E resp \in LoopResponses(Len(invocations)) : agent_node(resp)
    \/ agent_node_raises
    \/ tool_node
    \/ graph_recursion_error
    \/ chat_returns

SpecLoop == Init /\ [][NextLoop]_vars

----------------------------------------------------------------------------
(* Uploads served while a turn is running *)

\* upload_csv between two steps of a running turn
upload_csv_during_turn(name, content) ==
    /\ pc \in {"agent", "tools"}
    /\ save_upload(name, content)

\* the responses of the completion service in these runs: a text, or one call
\* of read_csv_tool, without a path or with the path of b.csv
RaceResponses(used) ==
    {AIMessage(AnswerText, <<>>)} \cup
    (IF used >= MaxToolCalls THEN {}
     ELSE { AIMessage(NoText, <<[name |-> "read_csv_tool", args |-> args, id |-> used + 1]>>)
            : args \in {<<>>, [file_path |-> PathB]} })

NextRace ==
    \/ \E name \in UploadNames : \E content \in UploadContents(name) :
          upload_csv(name, content)
    \/ \E name \in UploadNames : \E content \in UploadContents(name) :
          upload_csv_during_turn(name, content)
    \/ \E user_message \in UserMessages : chat(user_message)
    \/ pc = "agent" /\ \E resp \in RaceResponses(Len(invocations)) : agent_node(resp)
    \/ agent_node_raises
    \/ tool_node
    \/ chat_returns

SpecRace == Init /\ [][NextRace]_vars

----------------------------------------------------------------------------
(* The service started with Langfuse configured: create_agent is given the *)
(* callback handler                                                        *)

InitTrace ==
    /\ fs = [f \in Files |-> IF f = FallbackPath THEN "Demo" ELSE Absent]
    /\ current_csv_file = None
    /\ pc = "idle"
    /\ messages = <<>>
    /\ csv_file_path = ""
    /\ sent = <<>>
    /\ response = NoText
    /\ invocations = <<>>
    /\ outcome = "none"
    /\ last_upload = NoUpload
    /\ toolrun = NoRun
    /\ steps = 0
    /\ langfuse_handler = TRUE
    /\ trace = <<>>
    /\ twin = IdleTurn

SpecTrace == InitTrace /\ [][Next]_vars

----------------------------------------------------------------------------
(* One execution of a tool function, with the file system free to change   *)
(* between _get_csv_path's os.path.exists and pd.read_csv's open.          *)

ToolPaths == {"", PathA, PathB, "/tmp/nofile.csv"}
ToolColumns == {"age", "amount"}
ToolQueries == {"How many rows", "list columns"}

\* the text of the tool function `name` for the arguments of `run`
ToolFunction(name, run, fs1, fs2) ==
    CASE name = "read_csv_tool" -> read_csv_tool(run.file_path, fs1, fs2)
      [] name = "analyze_csv_column" ->
           analyze_csv_column(run.arg, run.file_path, fs1, fs2)
      [] OTHER -> query_csv_data(run.arg, run.file_path, fs1, fs2)

ToolArgs(name) ==
    CASE name = "read_csv_tool" -> {""}
      [] name = "analyze_csv_column" -> ToolColumns
      [] OTHER -> ToolQueries

\* what a file may hold in these runs
FileContents(f) ==
    {Absent, Garbage} \cup
    {IF f = PathA THEN "TableA" ELSE IF f = PathB THEN "TableB" ELSE "Demo"}

InitTool ==
    /\ fs \in [Files -> Contents]
    /\ \A f \in Files : fs[f] \in FileContents(f)
    /\ \E name \in Range(tools) : \E file_path \in ToolPaths : \E arg \in ToolArgs(name) :
          toolrun = [stage |-> "called", name |-> name, file_path |-> file_path,
                     arg |-> arg, fs_checked |-> fs, csv_path |-> "",
                     result |-> NoText]
    /\ current_csv_file = None
    /\ pc = "idle"
    /\ messages = <<>>
    /\ csv_file_path = ""
    /\ sent = <<>>
    /\ response = NoText
    /\ invocations = <<>>
    /\ outcome = "none"
    /\ last_upload = NoUpload
    /\ steps = 0
    /\ langfuse_handler = FALSE
    /\ trace = <<>>
    /\ twin = IdleTurn

\* csv_path = _get_csv_path(file_path)
tool_resolves_path ==
    /\ toolrun.stage = "called"
    /\ toolrun' = [toolrun EXCEPT !.stage = "resolved",
                                  !.fs_checked = fs,
                                  !.csv_path = _get_csv_path(toolrun.file_path, fs)]
    /\ UNCHANGED <<fs, current_csv_file, turnvars, last_upload, langfuse_handler>>

\* another process removes, overwrites or creates a file
file_changes(f, content) ==
    /\ toolrun.stage = "resolved"
    /\ fs[f] # content
    /\ fs' = [fs EXCEPT ![f] = content]
    /\ UNCHANGED <<current_csv_file, turnvars, last_upload, toolrun, langfuse_handler>>

\* df = pd.read_csv(csv_path) and the rest of the function, to its return
tool_reads ==
    /\ toolrun.stage = "resolved"
    /\ toolrun' = [toolrun EXCEPT !.stage = "returned",
                                  !.result = ToolFunction(toolrun.name, toolrun,
                                                          toolrun.fs_checked, fs)]
    /\ UNCHANGED <<fs, current_csv_file, turnvars, last_upload, langfuse_handler>>

NextTool ==
    \/ tool_resolves_path
    \/ \E f \in Files : \E content \in FileContents(f) : file_changes(f, content)
    \/ tool_reads

SpecTool == InitTool /\ [][NextTool]_vars

----------------------------------------------------------------------------
(* query_csv_data and analyze_csv_column over a table that has been read:  *)
(* one table and one query text or column name per run.                    *)

ResolverQueries ==
    { "How many rows", "row count and unique age in the summary", "Number of Rows: sum",
      "list columns", "show columns and the sum of age", "Column Names unique",
      "summary", "summary of age", "describe unique city", "overview: max amount",
      "unique", "show unique values in city", "unique city or age", "Unique RATIO",
      "unique code", "unique average of age",
      "sum of age", "average of city", "average of name", "max and sum of age",
      "min of amount", "mean ratio", "mean blank", "maximum", "average of AGE",
      "minimum of the sum of amount", "hello", "median of age" }

\* column names asked for; the table may have no such column
AnalysisColumns(df) == Range(Columns(df)) \cup {"zip"}

InitData ==
    /\ fs = [f \in Files |-> IF f = FallbackPath THEN "Demo" ELSE Absent]
    /\ \E df \in Tables :
          \/ \E query \in ResolverQueries :
                toolrun = [stage |-> "called", name |-> "query_csv_data", df |-> df,
                           arg |-> query, result |-> NoText]
          \/ \E column_name \in AnalysisColumns(df) :
                toolrun = [stage |-> "called", name |-> "analyze_csv_column", df |-> df,
                           arg |-> column_name, result |-> NoText]
    /\ current_csv_file = None
    /\ pc = "idle"
    /\ messages = <<>>
    /\ csv_file_path = ""
    /\ sent = <<>>
    /\ response = NoText
    /\ invocations = <<>>
    /\ outcome = "none"
    /\ last_upload = NoUpload
    /\ steps = 0
    /\ langfuse_handler = FALSE
    /\ trace = <<>>
    /\ twin = IdleTurn

\* query_csv_data from query.lower() to its return
query_returns ==
    /\ toolrun.stage = "called"
    /\ toolrun.name = "query_csv_data"
    /\ toolrun' = [toolrun EXCEPT !.stage = "returned",
                                  !.result = resolve(toolrun.df, toolrun.arg)]
    /\ UNCHANGED <<fs, current_csv_file, turnvars, last_upload, langfuse_handler>>

\* analyze_csv_column from the column check to its return
analysis_returns ==
    /\ toolrun.stage = "called"
    /\ toolrun.name = "analyze_csv_column"
    /\ toolrun' = [toolrun EXCEPT !.stage = "returned",
                                  !.result = analyze_column(toolrun.df, toolrun.arg)]
    /\ UNCHANGED <<fs, current_csv_file, turnvars, last_upload, langfuse_handler>>

NextData ==
    \/ query_returns
    \/ analysis_returns

SpecData == InitData /\ [][NextData]_vars

----------------------------------------------------------------------------
(* Properties of the controller *)

IsToolCalling(m) == m.role = "ai" /\ m.tool_calls # <<>>

\* in seq, every assistant message with calls c1..cn is followed by exactly n
\* tool messages, the i-th carrying the identifier of ci, and every tool
\* message is one of these
Answered(seq) ==
    /\ \A k \in DOMAIN seq :
          seq[k].role = "ai" =>
             LET n == Len(seq[k].tool_calls)
             IN  /\ k + n <= Len(seq)
                 /\ \A i \in 1..n :
                       /\ seq[k + i].role = "tool"
                       /\ seq[k + i].tool_call_id = seq[k].tool_calls[i].id
                 /\ k + n + 1 <= Len(seq) => seq[k + n + 1].role # "tool"
    /\ \A j \in DOMAIN seq :
          seq[j].role = "tool" =>
             \E k \in 1..(j - 1) : seq[k].role = "ai" /\ j - k <= Len(seq[k].tool_calls)

\* C1: whenever the completion service is called, every tool call of every
\* earlier assistant response of the turn has exactly one tool-result message
\* in the sequence passed, right after that response, in the order of the
\* calls and with their identifiers.
C1_CallsAnsweredBeforeModelCall == Answered(sent)

\* a model call after two dispatch rounds, one of them with two calls
C1_Witness ==
    /\ \E k \in DOMAIN sent : sent[k].role = "ai" /\ Len(sent[k].tool_calls) = 2
    /\ \E k \in DOMAIN sent : \E l \in DOMAIN sent : k < l /\ IsToolCalling(sent[k]) /\ IsToolCalling(sent[l])

\* C2: a model response with no tool call ends the turn with that response's
\* content as the answer, a response with tool calls leads to the tool node,
\* and nothing but the return of the handler follows the end of a turn.
C2_RoutingAndAnswer ==
    /\ [][pc = "agent" /\ messages' # messages =>
             LET last == messages'[Len(messages')]
             IN  /\ (last.tool_calls = <<>>) <=> (pc' = "returned" /\ outcome' = "answer")
                 /\ (last.tool_calls # <<>>) <=> (pc' = "tools")]_vars
    /\ [](outcome = "answer" =>
             /\ pc = "returned"
             /\ messages[Len(messages)].role = "ai"
             /\ messages[Len(messages)].tool_calls = <<>>
             /\ response = messages[Len(messages)].content)
    /\ [][outcome = "answer" => pc' = "idle" /\ messages' = <<>>]_vars

\* a turn that ended with an answer after a dispatch round
C2_Witness ==
    /\ outcome = "answer"
    /\ response = AnswerText
    /\ \E k \in DOMAIN messages : messages[k].role = "tool"

\* C10: when the completion service fails the turn is over: the handler
\* returns the error text, which holds nothing of the turn's assistant or tool
\* messages, and no node runs after it.
C10_ModelFailureEndsTurn ==
    /\ [](outcome = "llm_error" =>
             /\ pc = "returned"
             /\ response.kind = "Error running agent"
             /\ \A k \in DOMAIN messages :
                   messages[k].role \in {"ai", "tool"} =>
                      /\ response # messages[k].content
                      /\ response.items = <<>>
                      /\ response.arg = "")
    /\ [][outcome = "llm_error" => pc' = "idle" /\ messages' = <<>>]_vars

\* the completion service failed after tool results were appended
C10_Witness ==
    /\ outcome = "llm_error"
    /\ \E k \in DOMAIN messages : messages[k].role = "tool"

\* what tool_node's last run added to the log
DataErrorKinds ==
    {"Error reading CSV file", "Error analyzing column", "Error processing query",
     "Error: Column not found. Available columns"}

LacksRequired(call) ==
    call.name \in Range(tools) /\ ~(RequiredArgs(call.name) \subseteq DOMAIN call.args)

\* C3: tool_node answers a call to an unregistered tool with the text
\* "Tool '<name>' not found." under the call's identifier, invokes no tool for
\* it, dispatches the other calls of the response too, and hands over to the
\* agent node.
C3_UnknownToolTurnContinues ==
    [][pc = "tools" =>
          LET calls == messages[Len(messages)].tool_calls
          IN  (\E i \in DOMAIN calls : calls[i].name \notin Range(tools)) =>
                 /\ pc' = "agent"
                 /\ Len(messages') = Len(messages) + Len(calls)
                 /\ Len(invocations') = Len(invocations) + Len(calls)
                 /\ \A i \in DOMAIN calls :
                       calls[i].name \notin Range(tools) =>
                          /\ messages'[Len(messages) + i] =
                                ToolMessage(Text("Tool not found.", 0, <<>>,
                                                 calls[i].name, ""), calls[i].id)
                          /\ ~invocations'[Len(invocations) + i].invoked]_vars

\* C3, for the responses in which no call lacks a required argument
C3_UnknownToolWhenNoCallRaises ==
    [][pc = "tools" =>
          LET calls == messages[Len(messages)].tool_calls
          IN  (/\ \E i \in DOMAIN calls : calls[i].name \notin Range(tools)
               /\ \A i \in DOMAIN calls : ~LacksRequired(calls[i])) =>
                 /\ pc' = "agent"
                 /\ Len(messages') = Len(messages) + Len(calls)
                 /\ Len(invocations') = Len(invocations) + Len(calls)
                 /\ \A i \in DOMAIN calls :
                       calls[i].name \notin Range(tools) =>
                          /\ messages'[Len(messages) + i] =
                                ToolMessage(Text("Tool not found.", 0, <<>>,
                                                 calls[i].name, ""), calls[i].id)
                          /\ ~invocations'[Len(invocations) + i].invoked]_vars

\* C4: a call that lacks a required argument gets a text tool-result under
\* its identifier and tool_node hands over to the agent node; the turn does
\* not end in run_agent's except branch.
C4_MissingArgumentIsToolResult ==
    [][pc = "tools" =>
          LET calls == messages[Len(messages)].tool_calls
          IN  \A i \in DOMAIN calls :
                 LacksRequired(calls[i]) =>
                    /\ pc' = "agent"
                    /\ outcome' # "tool_raise"
                    /\ Len(messages') >= Len(messages) + i
                    /\ messages'[Len(messages) + i].role = "tool"
                    /\ messages'[Len(messages) + i].tool_call_id = calls[i].id]_vars

\* C9: when a tool's data access fails (unreadable file, unknown column) the
\* tool returns an error text, which becomes the tool-result of that call, and
\* tool_node goes on and hands over to the agent node; the text for an unknown
\* column lists the table's columns.
C9_DataErrorsAreToolResults ==
    [][pc = "tools" =>
          \A j \in (Len(invocations) + 1)..Len(invocations') :
             LET p == invocations'[j]
                 i == j - Len(invocations)
             IN  (p.invoked /\ ~p.raised /\ p.result.kind \in DataErrorKinds) =>
                    /\ pc' = "agent"
                    /\ Len(messages') >= Len(messages) + i
                    /\ messages'[Len(messages) + i] = ToolMessage(p.result, p.id)
                    /\ p.result.kind = "Error: Column not found. Available columns" =>
                          p.result.items =
                             Columns(fs[_get_csv_path(p.invoked_args.file_path, fs)])]_vars

\* C9, for the responses in which no call lacks a required argument
C9_DataErrorsWhenNoCallRaises ==
    [][pc = "tools" /\ (\A i \in DOMAIN messages[Len(messages)].tool_calls :
                           ~LacksRequired(messages[Len(messages)].tool_calls[i])) =>
          \A j \in (Len(invocations) + 1)..Len(invocations') :
             LET p == invocations'[j]
                 i == j - Len(invocations)
             IN  (p.invoked /\ p.result.kind \in DataErrorKinds) =>
                    /\ pc' = "agent"
                    /\ Len(messages') >= Len(messages) + i
                    /\ messages'[Len(messages) + i] = ToolMessage(p.result, p.id)
                    /\ p.result.kind = "Error: Column not found. Available columns" =>
                          p.result.items =
                             Columns(fs[_get_csv_path(p.invoked_args.file_path, fs)])]_vars

\* C5: a tool is invoked with the call's own arguments when they hold a
\* file_path (whatever it is), and with them plus file_path = the turn's
\* csv_file_path when they hold none; the arguments in the assistant message
\* stay as the completion service emitted them.
C5_PathInjectedOnlyWhenAbsent ==
    /\ \A j \in DOMAIN invocations :
          LET p == invocations[j]
          IN  p.invoked =>
                 IF "file_path" \in DOMAIN p.emitted
                 THEN p.invoked_args = p.emitted
                 ELSE /\ DOMAIN p.invoked_args = DOMAIN p.emitted \cup {"file_path"}
                      /\ p.invoked_args.file_path = csv_file_path
                      /\ \A key \in DOMAIN p.emitted : p.invoked_args[key] = p.emitted[key]
    /\ \A k \in DOMAIN messages : \A i \in DOMAIN messages[k].tool_calls :
          \A j \in DOMAIN invocations :
             invocations[j].id = messages[k].tool_calls[i].id =>
                messages[k].tool_calls[i].args = invocations[j].emitted

\* after an upload, one call with an explicit empty path and one with none
C5_Witness ==
    /\ csv_file_path # ""
    /\ pc = "agent"
    /\ \E j \in DOMAIN invocations :
          /\ invocations[j].invoked
          /\ "file_path" \in DOMAIN invocations[j].emitted
          /\ invocations[j].emitted.file_path = ""
          /\ invocations[j].invoked_args.file_path = ""
    /\ \E j \in DOMAIN invocations :
          /\ invocations[j].invoked
          /\ "file_path" \notin DOMAIN invocations[j].emitted
          /\ invocations[j].invoked_args.file_path = csv_file_path

\* C6: in a turn that follows an upload, every tool that runs for a call
\* without file_path is given the path of the last uploaded file and answers
\* from that file's content, not from the fallback's.
C6_PathlessCallReadsUpload ==
    last_upload.path # None =>
       \A j \in DOMAIN invocations :
          LET p == invocations[j]
              c == last_upload.content
          IN  (p.invoked /\ ~p.raised /\ "file_path" \notin DOMAIN p.emitted) =>
                 /\ p.invoked_args.file_path = last_upload.path
                 /\ p.name = "read_csv_tool" =>
                       IF c \in Tables
                       THEN p.result = Text("CSV File Information", Rows(c), Columns(c), "", "")
                       ELSE p.result = Text("Error reading CSV file", 0, <<>>, "", "ParserError")
                 /\ p.name = "analyze_csv_column" /\ c \in Tables =>
                       p.result = analyze_column(c, p.invoked_args.column_name)
                 /\ p.name = "query_csv_data" /\ c \in Tables =>
                       p.result = Text("The CSV file has rows", Rows(c), <<>>, "", "")

\* b.csv was uploaded after a.csv and a call without path read b.csv
C6_Witness ==
    /\ last_upload = [path |-> PathB, content |-> "TableB", calls |-> 0]
    /\ fs[PathA] = "TableA"
    /\ \E j \in DOMAIN invocations :
          /\ invocations[j].name = "read_csv_tool"
          /\ invocations[j].emitted = <<>>
          /\ invocations[j].result.num = Rows("TableB")
          /\ invocations[j].result.items = <<"name">>

----------------------------------------------------------------------------
(* Properties of the tools *)

ReadErrorKind(name) ==
    CASE name = "read_csv_tool" -> "Error reading CSV file"
      [] name = "analyze_csv_column" -> "Error analyzing column"
      [] OTHER -> "Error processing query"

\* the text of run is the tool's answer over table t
AnswersFrom(run, t) ==
    CASE run.name = "read_csv_tool" ->
           run.result = Text("CSV File Information", Rows(t), Columns(t), "", "")
      [] run.name = "analyze_csv_column" ->
           run.result = analyze_column(t, run.arg)
      [] OTHER ->
           IF run.arg = "How many rows"
           THEN run.result = Text("The CSV file has rows", Rows(t), <<>>, "", "")
           ELSE run.result = Text("Columns in the CSV file", 0, Columns(t), "", "")

\* the text of run is the tool's error text for a file that holds c
FailsOn(run, c) ==
    run.result = Text(ReadErrorKind(run.name), 0, <<>>, "",
                      IF c = Absent THEN "FileNotFoundError" ELSE "ParserError")

\* C7: a tool called with a path that is empty or names no existing file
\* reads the fallback file and returns a text: its answer over the fallback's
\* table, or its error text when the fallback itself cannot be read.
C7_FallbackWhenEmptyOrMissing ==
    (/\ toolrun.stage = "returned"
     /\ toolrun.file_path = "" \/ ~os_path_exists(toolrun.file_path, toolrun.fs_checked)) =>
       /\ toolrun.csv_path = FallbackPath
       /\ toolrun.result # NoText
       /\ IF fs[FallbackPath] \in Tables
          THEN AnswersFrom(toolrun, fs[FallbackPath])
          ELSE FailsOn(toolrun, fs[FallbackPath])

\* a path that names no file, with another dataset present, answered from
\* the fallback's table
C7_Witness ==
    /\ toolrun.stage = "returned"
    /\ toolrun.name = "analyze_csv_column"
    /\ toolrun.file_path = "/tmp/nofile.csv"
    /\ fs[PathA] = "TableA"
    /\ toolrun.result.kind = "Analysis of column"
    /\ toolrun.result = analyze_column("Demo", "amount")

\* C8 as claimed: a path that exists when it is checked but cannot be parsed,
\* or is gone when it is read, is answered from the fallback dataset.
C8_UnreadablePathUsesFallback ==
    (/\ toolrun.stage = "returned"
     /\ toolrun.file_path # ""
     /\ os_path_exists(toolrun.file_path, toolrun.fs_checked)
     /\ fs[toolrun.file_path] \in {Absent, Garbage}
     /\ fs[FallbackPath] \in Tables) =>
       AnswersFrom(toolrun, fs[FallbackPath])

\* C8 amended: a path that exists when it is checked is the path that is
\* read, and the fallback is not substituted for it: the tool answers from
\* its table, and returns its error text when the file cannot be parsed or is
\* gone when it is read.
C8_UnreadablePathIsError ==
    (/\ toolrun.stage = "returned"
     /\ toolrun.file_path # ""
     /\ os_path_exists(toolrun.file_path, toolrun.fs_checked)) =>
       /\ toolrun.csv_path = toolrun.file_path
       /\ IF fs[toolrun.file_path] \in Tables
          THEN AnswersFrom(toolrun, fs[toolrun.file_path])
          ELSE FailsOn(toolrun, fs[toolrun.file_path])

\* the file was there at the check and gone at the read, with the fallback
\* readable
C8_Witness ==
    /\ toolrun.stage = "returned"
    /\ toolrun.file_path = PathA
    /\ toolrun.fs_checked[PathA] = "TableA"
    /\ fs[PathA] = Absent
    /\ fs[FallbackPath] = "Demo"
    /\ toolrun.result.detail = "FileNotFoundError"

----------------------------------------------------------------------------
(* Properties of the history *)

IsPrefix(s, t) == Len(s) <= Len(t) /\ SubSeq(t, 1, Len(s)) = s

\* C11: a step of the agent node or of the tool node only appends to the
\* history: the history before the step is a prefix of the history after it.
C11_HistoryAppendOnly ==
    [][(pc \in {"agent", "tools"}) => IsPrefix(messages, messages')]_vars

\* a dispatch round has appended its tool messages behind three earlier
\* messages
C11_Witness ==
    /\ pc = "agent"
    /\ Len(messages) >= 5
    /\ messages[1].role = "human"
    /\ messages[Len(messages)].role = "tool"

----------------------------------------------------------------------------
(* The number of rounds of a turn *)

\* the completion service has given a response without tool calls
HasPlainResponse ==
    \E i \in DOMAIN messages : messages[i].role = "ai" /\ messages[i].tool_calls = <<>>

----------------------------------------------------------------------------
(* Properties of query_csv_data's resolver *)

\* a run of query_csv_data that has returned
QueryReturned == toolrun.stage = "returned" /\ toolrun.name = "query_csv_data"

\* the intents in their order, and whether the lower-cased text triggers one
Intents == <<"row-count", "list-columns", "summary", "unique", "aggregate", "fallback">>

Triggers(intent, q) ==
    CASE intent = "row-count" ->
           \E p \in {"count rows", "how many rows", "number of rows", "row count"} :
              Contains(q, p)
      [] intent = "list-columns" ->
           \E p \in {"list columns", "what columns", "column names", "show columns"} :
              Contains(q, p)
      [] intent = "summary" ->
           \E p \in {"summary statistics", "describe", "overview", "summary"} :
              Contains(q, p)
      [] intent = "unique" -> Contains(q, "unique")
      [] intent = "aggregate" ->
           \E p \in {"sum", "mean", "average", "max", "min"} : Contains(q, p)
      [] OTHER -> TRUE

\* the intent a text of the resolver belongs to
IntentOf(text) ==
    CASE text.kind = "The CSV file has rows" -> "row-count"
      [] text.kind = "Columns in the CSV file" -> "list-columns"
      [] text.kind = "Summary Statistics" -> "summary"
      [] text.kind \in {"Unique values in",
                        "Please specify which column to show unique values for."} ->
           "unique"
      [] text.kind \in {"The operation of column is",
                        "Could not find a numeric column for operation"} -> "aggregate"
      [] OTHER -> "fallback"

\* C13: the resolver answers with the first intent of the fixed order whose
\* trigger phrase occurs in the lower-cased text, whatever else the text
\* holds: a row-count phrase gives the table's number of rows, and "summary"
\* gives the summary of the whole table.
C13_FirstIntentInOrder ==
    QueryReturned =>
       LET q == Lower(toolrun.arg)
           first == CHOOSE i \in DOMAIN Intents :
                       /\ Triggers(Intents[i], q)
                       /\ \A j \in 1..(i - 1) : ~Triggers(Intents[j], q)
       IN  /\ IntentOf(toolrun.result) = Intents[first]
           /\ Triggers("row-count", q) =>
                 toolrun.result = Text("The CSV file has rows", Rows(toolrun.df), <<>>, "", "")
           /\ (Contains(q, "summary") /\ ~Triggers("row-count", q)
                  /\ ~Triggers("list-columns", q)) =>
                 toolrun.result =
                    Text("Summary Statistics", Rows(toolrun.df), Columns(toolrun.df), "", "")

\* "summary of age" over a table with a numeric column age gave the summary
\* of the table
C13_Witness ==
    /\ QueryReturned
    /\ toolrun.arg = "summary of age"
    /\ toolrun.df = "TableA"
    /\ toolrun.result.kind = "Summary Statistics"

\* the text is "average of <col>" for a categorical column <col> of the table
AverageOfCategorical ==
    /\ QueryReturned
    /\ \E col \in Range(Columns(toolrun.df)) \ NumericColumns(toolrun.df) :
          toolrun.arg = "average of " \o col

\* the numeric columns whose lower-cased name is a substring of the text
NumericNamed ==
    {col \in NumericColumns(toolrun.df) : Contains(Lower(toolrun.arg), Lower(col))}

AggregateAsked ==
    /\ QueryReturned
    /\ \A i \in 1..4 : ~Triggers(Intents[i], Lower(toolrun.arg))
    /\ Triggers("aggregate", Lower(toolrun.arg))

\* C15: in the aggregate branch the operation is the first token of sum,
\* mean, average, max, min that occurs in the text, and the column the first
\* numeric column in table order whose lower-cased name occurs in it; without
\* such a column the answer is the message for that operation; "sum of age"
\* over 10, 20, 30 gives "The sum of 'age' is: 60.00".
C15_FirstOperationFirstNumericColumn ==
    AggregateAsked =>
       LET q == Lower(toolrun.arg)
           order == <<"sum", "mean", "average", "max", "min">>
           first == CHOOSE i \in DOMAIN order :
                       /\ Contains(q, order[i])
                       /\ \A j \in 1..(i - 1) : ~Contains(q, order[j])
           cols == Columns(toolrun.df)
           hits == {i \in DOMAIN cols : /\ cols[i] \in NumericColumns(toolrun.df)
                                        /\ Contains(q, Lower(cols[i]))}
       IN  /\ IF hits = {}
              THEN toolrun.result = Text("Could not find a numeric column for operation",
                                         0, <<>>, order[first], "")
              ELSE /\ toolrun.result.kind = "The operation of column is"
                   /\ toolrun.result.items = <<order[first]>>
                   /\ toolrun.result.arg = cols[CHOOSE i \in hits : \A j \in hits : i <= j]
           /\ (toolrun.arg = "sum of age" /\ toolrun.df = "TableA") =>
                 toolrun.result = Text("The operation of column is", 0, <<"sum">>,
                                       "age", "60.00")

\* "max and sum of age" over the ages 10, 20, 30 gave their sum
C15_Witness ==
    /\ AggregateAsked
    /\ toolrun.arg = "max and sum of age"
    /\ toolrun.df = "TableA"
    /\ toolrun.result = Text("The operation of column is", 0, <<"sum">>, "age", "60.00")

\* the text reaches the unique branch
UniqueAsked ==
    /\ QueryReturned
    /\ \A i \in 1..3 : ~Triggers(Intents[i], Lower(toolrun.arg))
    /\ Contains(Lower(toolrun.arg), "unique")

\* the position of the first cell of the column that str() shows as text
FirstSeen(df, col, text) ==
    CHOOSE i \in DOMAIN Cells(df, col) :
       /\ Str(df, col, Cells(df, col)[i]) = text
       /\ \A j \in 1..(i - 1) : Str(df, col, Cells(df, col)[j]) # text

\* C16: in the unique branch the column is the first in table order whose
\* lower-cased name occurs in the text; its distinct values are listed in
\* first-seen order, all of them and nothing more when they are at most 20,
\* the first 20 and the number of the others when they are more; without a
\* column name in the text the answer asks for one and lists nothing.
C16_UniqueValuesOfFirstNamedColumn ==
    UniqueAsked =>
       LET q == Lower(toolrun.arg)
           df == toolrun.df
           cols == Columns(df)
           hits == {i \in DOMAIN cols : Contains(q, Lower(cols[i]))}
           r == toolrun.result
       IN  IF hits = {}
           THEN r = Text("Please specify which column to show unique values for.",
                         0, <<>>, "", "")
           ELSE LET col == cols[CHOOSE i \in hits : \A j \in hits : i <= j]
                    distinct == {Str(df, col, Cells(df, col)[i]) : i \in DOMAIN Cells(df, col)}
                    n == Cardinality(distinct)
                IN  /\ r.kind = "Unique values in"
                    /\ r.arg = col
                    /\ Len(r.items) = (IF n <= 20 THEN n ELSE 20)
                    /\ \A i \in DOMAIN r.items : r.items[i] \in distinct
                    /\ \A i, j \in DOMAIN r.items :
                          i < j => FirstSeen(df, col, r.items[i]) < FirstSeen(df, col, r.items[j])
                    /\ \A v \in distinct \ Range(r.items) : \A i \in DOMAIN r.items :
                          FirstSeen(df, col, r.items[i]) < FirstSeen(df, col, v)
                    /\ r.detail = (IF n <= 20 THEN ""
                                   ELSE "... and " \o ToString(n - 20) \o " more")

\* a column of 22 distinct values was listed up to its twentieth
C16_Witness ==
    /\ UniqueAsked
    /\ toolrun.df = "Codes"
    /\ Len(toolrun.result.items) = 20
    /\ toolrun.result.items[20] = "c20"
    /\ toolrun.result.detail = "... and 2 more"

----------------------------------------------------------------------------
(* Properties of analyze_csv_column's statistics *)

\* a run of analyze_csv_column on a numeric column has returned its analysis
NumericAnalysed ==
    /\ toolrun.stage = "returned"
    /\ toolrun.name = "analyze_csv_column"
    /\ toolrun.arg \in NumericColumns(toolrun.df)
    /\ toolrun.result.kind = "Analysis of column"

\* the five order statistics as the text shows them: Min, Q1, Median, Q3, Max
ReportedOrderStatistics == SubSeq(toolrun.result.items, 4, 8)

\* the number, in hundredths, that a text of two decimals shows; the numbers
\* of a column lie between 0 and its largest cell
NumberShown(text, cells, den) ==
    CHOOSE h \in 0..(100 * (MaxSeq(Present(cells)) \div den + 1)) : Format2(h) = text

\* the texts show numbers in ascending order
Ascending(texts, cells, den) ==
    /\ \A i \in DOMAIN texts : texts[i] # "nan"
    /\ \A i \in 1..(Len(texts) - 1) :
          NumberShown(texts[i], cells, den) <= NumberShown(texts[i + 1], cells, den)

\* C19 (as stated): for every numeric column the reported statistics satisfy
\* min <= Q1 <= median <= Q3 <= max, also after rounding to two decimals and
\* for a column with missing values.
C19_OrderStatisticsAscend ==
    NumericAnalysed =>
       Ascending(ReportedOrderStatistics, Cells(toolrun.df, toolrun.arg),
                 CellDenominator(toolrun.df, toolrun.arg))

\* C19 (amended): for every numeric column with at least one value that is
\* not missing the reported statistics satisfy min <= Q1 <= median <= Q3 <=
\* max, also after rounding to two decimals and with missing values beside
\* it; for a numeric column whose values are all missing each of the five is
\* reported as nan.
C19_OrderStatisticsAscendOrNan ==
    NumericAnalysed =>
       IF Present(Cells(toolrun.df, toolrun.arg)) # <<>>
       THEN Ascending(ReportedOrderStatistics, Cells(toolrun.df, toolrun.arg),
                      CellDenominator(toolrun.df, toolrun.arg))
       ELSE \A i \in 1..5 : ReportedOrderStatistics[i] = "nan"

\* a column with one missing value and four numbers in eighths, whose
\* statistics were rounded to two decimals
C19_Witness ==
    /\ NumericAnalysed
    /\ toolrun.df = "Lab"
    /\ toolrun.result.num = 1
    /\ ReportedOrderStatistics = <<"0.12", "0.22", "0.31", "0.44", "0.62">>

----------------------------------------------------------------------------
(* Properties of the turn's state *)

SystemMessageOfTurn ==
    SystemMessage(Text("The current CSV file path is", 0, <<>>,
                       IF csv_file_path # "" THEN csv_file_path
                       ELSE "demo_data.csv (default)", ""))

C20_TurnKeepsItsPath ==
    /\ [][(pc = "idle" /\ pc' = "agent") =>
             csv_file_path' = (IF current_csv_file = None THEN "" ELSE current_csv_file)]_vars
    /\ [][(pc \in {"agent", "tools"}) => csv_file_path' = csv_file_path]_vars
    /\ [](\A j \in DOMAIN invocations :
             (invocations[j].invoked /\ "file_path" \notin DOMAIN invocations[j].emitted) =>
                invocations[j].invoked_args.file_path = csv_file_path)

\* a turn started on a.csv, b.csv was uploaded after its first tool call, and
\* a later call without path still got the path of a.csv
C20_Witness ==
    /\ pc \in {"agent", "tools", "returned"}
    /\ csv_file_path = PathA
    /\ current_csv_file = PathB
    /\ last_upload.path = PathB
    /\ last_upload.calls >= 1
    /\ \E j \in DOMAIN invocations :
          /\ j > last_upload.calls
          /\ "file_path" \notin DOMAIN invocations[j].emitted
          /\ invocations[j].invoked_args.file_path = PathA

----------------------------------------------------------------------------
(* One request after another to upload_csv, each observed step by step:    *)
(* the check of the file name, open(file_path, "wb"), file.read() and      *)
(* buffer.write, the assignment of the binding, and the handler's          *)
(* `except Exception` around all of them.                                  *)

\* s.endswith(suffix)
EndsWith(s, suffix) ==
    /\ Len(s) >= Len(suffix)
    /\ SubSeq(s, Len(s) - Len(suffix) + 1, Len(s)) = suffix

\* the file names of the requests: two that end in .csv, two that do not
\* (endswith is case-sensitive), and one under a directory UPLOAD_DIR lacks
RequestNames == UploadNames \cup {"notes.txt", "data.CSV", "missing/c.csv"}

\* the bytes sent under a name
RequestContents(name) == IF name \in UploadNames THEN UploadContents(name) ELSE {"TableB"}

\* open(UPLOAD_DIR / name, "wb") raises FileNotFoundError: UPLOAD_DIR is
\* created without subdirectories
open_raises(name) == Contains(name, "/")

\* str(e) of the exceptions the handler's `except Exception` catches
NotCsvError == "400: Only CSV files are allowed"
OpenError == "[Errno 2] No such file or directory"
ReadError == "read failed"

\* what open(file_path, "wb") leaves before the first write: an empty file,
\* which pd.read_csv does not parse
Truncated == Garbage

\* raise HTTPException(status_code=500, detail=f"Error uploading file: {str(e)}")
HTTPException500(run, e) ==
    [run EXCEPT !.stage = "returned",
                !.status = 500,
                !.detail = "Error uploading file: " \o e]

\* a request arrives; the run notes the binding and the files as they are
upload_called(name, content) ==
    /\ toolrun.stage \in {"none", "returned"}
    /\ toolrun' = [stage |-> "called", name |-> "upload_csv", filename |-> name,
                   content |-> content, status |-> 0, detail |-> "",
                   binding_before |-> current_csv_file, fs_before |-> fs]
    /\ UNCHANGED <<fs, current_csv_file, turnvars, last_upload, langfuse_handler>>

\* if not file.filename.endswith('.csv'): raise HTTPException(status_code=400, ...)
\* inside the try block, whose `except Exception` catches the HTTPException
upload_validates ==
    /\ toolrun.stage = "called"
    /\ toolrun' = (IF EndsWith(toolrun.filename, ".csv")
                   THEN [toolrun EXCEPT !.stage = "validated"]
                   ELSE HTTPException500(toolrun, NotCsvError))
    /\ UNCHANGED <<fs, current_csv_file, turnvars, last_upload, langfuse_handler>>

\* with open(file_path, "wb") as buffer
upload_opens ==
    /\ toolrun.stage = "validated"
    /\ IF open_raises(toolrun.filename)
       THEN /\ toolrun' = HTTPException500(toolrun, OpenError)
            /\ fs' = fs
       ELSE /\ toolrun' = [toolrun EXCEPT !.stage = "opened"]
            /\ fs' = [fs EXCEPT ![UploadPath(toolrun.filename)] = Truncated]
    /\ UNCHANGED <<current_csv_file, turnvars, last_upload, langfuse_handler>>

\* content = await file.read(); buffer.write(content)
upload_writes ==
    /\ toolrun.stage = "opened"
    /\ toolrun' = [toolrun EXCEPT !.stage = "written"]
    /\ fs' = [fs EXCEPT ![UploadPath(toolrun.filename)] = toolrun.content]
    /\ UNCHANGED <<current_csv_file, turnvars, last_upload, langfuse_handler>>

\* await file.read() raises
upload_read_raises ==
    /\ toolrun.stage = "opened"
    /\ toolrun' = HTTPException500(toolrun, ReadError)
    /\ UNCHANGED <<fs, current_csv_file, turnvars, last_upload, langfuse_handler>>

\* current_csv_file = str(file_path); return UploadResponse(...)
upload_binds ==
    /\ toolrun.stage = "written"
    /\ current_csv_file' = UploadPath(toolrun.filename)
    /\ last_upload' = [path |-> UploadPath(toolrun.filename),
                        content |-> toolrun.content, calls |-> Len(invocations)]
    /\ toolrun' = [toolrun EXCEPT !.stage = "returned",
                                  !.status = 200,
                                  !.detail = "CSV file uploaded successfully"]
    /\ UNCHANGED <<fs, turnvars, langfuse_handler>>

NextUpload ==
    \/ \E name \in RequestNames : \E content \in RequestContents(name) :
          upload_called(name, content)
    \/ upload_validates
    \/ upload_opens
    \/ upload_writes
    \/ upload_read_raises
    \/ upload_binds

SpecUpload == Init /\ [][NextUpload]_vars

----------------------------------------------------------------------------
(* Properties of the upload handler *)

\* the request of the run has been answered
UploadReturned == toolrun.stage = "returned" /\ toolrun.name = "upload_csv"

\* the request of the run is being handled or has been answered
UploadRun == toolrun.stage # "none" /\ toolrun.name = "upload_csv"

\* C21: an upload whose file name does not end in ".csv" is rejected with
\* HTTP status 400 ("Only CSV files are allowed"), writes no file and leaves
\* the binding unchanged; any failed upload leaves the binding at its
\* previous value, and only a successful upload sets it, to the stored
\* file's path.
C21_NotCsvRejectedWith400 ==
    /\ (UploadReturned /\ ~EndsWith(toolrun.filename, ".csv")) =>
          /\ toolrun.status = 400
          /\ toolrun.detail = "Only CSV files are allowed"
          /\ fs = toolrun.fs_before
          /\ current_csv_file = toolrun.binding_before
    /\ (UploadRun /\ toolrun.status # 200) =>
          current_csv_file = toolrun.binding_before
    /\ (UploadReturned /\ toolrun.status = 200) =>
          current_csv_file = UploadPath(toolrun.filename)

\* C21, what the handler does: the same with status 500 and the detail
\* "Error uploading file: 400: Only CSV files are allowed" for a name that
\* does not end in ".csv"
C21_NotCsvRejectedWith500 ==
    /\ (UploadReturned /\ ~EndsWith(toolrun.filename, ".csv")) =>
          /\ toolrun.status = 500
          /\ toolrun.detail = "Error uploading file: 400: Only CSV files are allowed"
          /\ fs = toolrun.fs_before
          /\ current_csv_file = toolrun.binding_before
    /\ (UploadRun /\ toolrun.status # 200) =>
          current_csv_file = toolrun.binding_before
    /\ (UploadReturned /\ toolrun.status = 200) =>
          /\ current_csv_file = UploadPath(toolrun.filename)
          /\ fs[current_csv_file] = toolrun.content

\* C21: no status other than 200 and 500 leaves the handler, and the binding
\* changes in no step but the one that ends a successful upload
C21_BindingSetBySuccessOnly ==
    /\ [](UploadReturned => toolrun.status \in {200, 500})
    /\ [][current_csv_file' # current_csv_file =>
            /\ toolrun'.stage = "returned"
            /\ toolrun'.status = 200
            /\ current_csv_file' = UploadPath(toolrun'.filename)]_vars

\* notes.txt was sent while a.csv was bound: the request is answered and
\* the binding and the files are as before
C21_Witness ==
    /\ UploadReturned
    /\ toolrun.filename = "notes.txt"
    /\ toolrun.binding_before = PathA
    /\ current_csv_file = PathA
    /\ fs = toolrun.fs_before

\* a read that failed after open left the bound file empty
C21_WitnessTruncated ==
    /\ UploadReturned
    /\ toolrun.status = 500
    /\ toolrun.filename = "a.csv"
    /\ toolrun.binding_before = PathA
    /\ toolrun.fs_before[PathA] = "TableA"
    /\ fs[PathA] = Truncated

=============================================================================
